---------------------------- MODULE Spec2Model ----------------------------
(***************************************************************************)
(* Model of HighLevelApp/common/cloud.c (AzureSphereTenantDeviceTwinSync): *)
(* the pending-event retry state machine (EventTimerCallbackHandler,       *)
(* TelemetryCallbackHandler, the two signal calls), the desired-property   *)
(* reconciliation (DeviceTwinCallbackHandler), the report                  *)
(* (Cloud_SendThermometerTelemetryUploadEnabledChangedEvent) and the       *)
(* command dispatch (DeviceMethodCallbackHandler).                         *)
(*                                                                         *)
(* All entry points run on one event-loop thread, run to completion, so    *)
(* every handler is one atomic action.                                     *)
(***************************************************************************)
EXTENDS Integers, Sequences, FiniteSets, TLC

(***************************************************************************)
(* Bounds of the model.                                                    *)
(***************************************************************************)
\* sends accepted by the transport and not yet acknowledged
MaxInFlight == 2
\* unsigned int is modelled with UIntModulus values (UINT_MAX + 1, scaled)
UIntModulus == 8
\* bytes the payload buffer holds besides its terminator (512 in cloud.c), scaled
MaxPayloadBytes == 2

MAX_PAYLOAD_SIZE == MaxPayloadBytes

VARIABLES
    phase,                          \* "start" | "running" | "aborted"
    eventTimer,                     \* "NULL" | "timer"
    latestVersion,
    appRestartEventPending,
    noUpdateAvailableEventPending,
    updateInstallingEventPending,
    thermometerTelemetryUploadEnabledChangedCallbackFunction,
    displayAlertCallbackFunction,
    connectionChangedCallbackFunction,
    nullTerminatedPayload,          \* static buffer of DeviceMethodCallbackHandler
    inFlight,                       \* transport: context -> sends awaiting their acknowledgement
    lastCall                        \* the entry point that ran last, its inputs and its outputs

flags == <<appRestartEventPending, noUpdateAvailableEventPending, updateInstallingEventPending>>

callbacks == <<thermometerTelemetryUploadEnabledChangedCallbackFunction,
               displayAlertCallbackFunction, connectionChangedCallbackFunction>>

vars == <<phase, eventTimer, latestVersion, appRestartEventPending,
          noUpdateAvailableEventPending, updateInstallingEventPending,
          thermometerTelemetryUploadEnabledChangedCallbackFunction,
          displayAlertCallbackFunction, connectionChangedCallbackFunction,
          nullTerminatedPayload, inFlight, lastCall>>

(***************************************************************************)
(* Values.                                                                 *)
(***************************************************************************)
\* the addresses used as send contexts: &flag, or NULL
FlagContexts == {"&noUpdateAvailableEventPending", "&updateInstallingEventPending",
                 "&appRestartEventPending"}

Contexts == FlagContexts \cup {"NULL"}

AzureIoT_Results == {"AzureIoT_Result_OK", "AzureIoT_Result_NoNetwork",
                     "AzureIoT_Result_OtherFailure", "AzureIoT_Result_Unknown"}

\* value of the flag a context points to
Deref(context) ==
    CASE context = "&noUpdateAvailableEventPending" -> noUpdateAvailableEventPending
      [] context = "&updateInstallingEventPending"  -> updateInstallingEventPending
      [] context = "&appRestartEventPending"        -> appRestartEventPending

AzureIoTToCloudResult(result) ==
    CASE result = "AzureIoT_Result_OK"           -> "Cloud_Result_OK"
      [] result = "AzureIoT_Result_NoNetwork"    -> "Cloud_Result_NoNetwork"
      [] result = "AzureIoT_Result_OtherFailure" -> "Cloud_Result_OtherFailure"
      [] OTHER                                   -> "Cloud_Result_OtherFailure"

(***************************************************************************)
(* Transport (azure_iot.c): a send that returns OK is acknowledged later   *)
(* through sendTelemetryCallbackFunction(success, context); a send that    *)
(* returns a failure is never acknowledged.                                *)
(***************************************************************************)
InFlightTotal(flight) ==
    flight["&noUpdateAvailableEventPending"] + flight["&updateInstallingEventPending"]
        + flight["&appRestartEventPending"] + flight["NULL"]

AzureIoT_SendTelemetry(flight, context, aziotResult) ==
    IF aziotResult = "AzureIoT_Result_OK"
    THEN [flight EXCEPT ![context] = @ + 1]
    ELSE flight

\* the transport after the sends of one handler, in order
RECURSIVE SendAll(_, _)
SendAll(flight, sends) ==
    IF sends = <<>> THEN flight
    ELSE SendAll(AzureIoT_SendTelemetry(flight, Head(sends).context, Head(sends).aziotResult),
                 Tail(sends))

RECURSIVE CountOK(_)
CountOK(sends) ==
    IF sends = <<>> THEN 0
    ELSE (IF Head(sends).aziotResult = "AzureIoT_Result_OK" THEN 1 ELSE 0) + CountOK(Tail(sends))

\* Cloud_SendEvent(eventName, context) with the transport answering aziotResult
Cloud_SendEvent(eventName, context, aziotResult) ==
    [eventName |-> eventName, context |-> context, aziotResult |-> aziotResult,
     result |-> AzureIoTToCloudResult(aziotResult)]

NoCall == [op |-> "none", in |-> <<>>, out |-> <<>>]

(***************************************************************************)
(* Initial state: the static initialisers of cloud.c.                      *)
(***************************************************************************)
Init ==
    /\ phase = "start"
    /\ eventTimer = "NULL"
    /\ latestVersion = 1
    /\ appRestartEventPending = TRUE
    /\ noUpdateAvailableEventPending = FALSE
    /\ updateInstallingEventPending = FALSE
    /\ thermometerTelemetryUploadEnabledChangedCallbackFunction =
           "DefaultTelemetryUploadEnabledChangedHandler"
    /\ displayAlertCallbackFunction = "DefaultDisplayAlertHandler"
    /\ connectionChangedCallbackFunction = "DefaultConnectionChangedHandler"
    /\ nullTerminatedPayload = [i \in 0..MAX_PAYLOAD_SIZE |-> 0]
    /\ inFlight = [c \in Contexts |-> 0]
    /\ lastCall = NoCall

(***************************************************************************)
(* Cloud_Initialize.                                                       *)
(***************************************************************************)
\* the callback arguments main passes: a handler, or NULL
InitArgs == {
    [upload |-> "NULL", alert |-> "NULL", connection |-> "NULL"],
    [upload |-> "UploadEnabledChanged", alert |-> "DisplayAlert", connection |-> "ConnectionChanged"]}

InitializeOutcome_NoTimerCheck(timerCreated, iotExit) ==
    [exitCode |-> iotExit, iotInitializeCalled |-> TRUE]

\* the exit code Cloud_Initialize returns and whether it reached
\* AzureIoT_Initialize, which registers the four transport callbacks
InitializeOutcome(timerCreated, iotExit) ==
    IF ~timerCreated
    THEN [exitCode |-> "ExitCode_Init_TelemetryTimer", iotInitializeCalled |-> FALSE]
    ELSE [exitCode |-> iotExit, iotInitializeCalled |-> TRUE]

Cloud_Initialize ==
    /\ phase = "start"
    /\ \E args \in InitArgs, timerCreated \in BOOLEAN,
          iotExit \in {"ExitCode_Success", "ExitCode_Init_AzureIoT"} :
        /\ thermometerTelemetryUploadEnabledChangedCallbackFunction' =
               IF args.upload # "NULL" THEN args.upload
               ELSE thermometerTelemetryUploadEnabledChangedCallbackFunction
        /\ displayAlertCallbackFunction' =
               IF args.alert # "NULL" THEN args.alert ELSE displayAlertCallbackFunction
        /\ connectionChangedCallbackFunction' =
               IF args.connection # "NULL" THEN args.connection
               ELSE connectionChangedCallbackFunction
        /\ eventTimer' = IF timerCreated THEN "timer" ELSE "NULL"
        /\ LET outcome == InitializeOutcome(timerCreated, iotExit)
           IN  /\ phase' = IF outcome.iotInitializeCalled /\ outcome.exitCode = "ExitCode_Success"
                           THEN "running" ELSE "aborted"
               /\ lastCall' = [op |-> "Cloud_Initialize", in |-> <<args, timerCreated>>,
                               out |-> outcome]
    /\ UNCHANGED <<latestVersion, flags, nullTerminatedPayload, inFlight>>

(***************************************************************************)
(* Retry scheduler: EventTimerCallbackHandler.                             *)
(***************************************************************************)
EventTimerSends_FallThrough ==
    (IF noUpdateAvailableEventPending
     THEN << <<"NoUpdateAvailable", "&noUpdateAvailableEventPending">> >> ELSE << >>)
    \o (IF updateInstallingEventPending
        THEN << <<"UpdateInstalling", "&updateInstallingEventPending">> >> ELSE << >>)
    \o (IF appRestartEventPending
        THEN << <<"AppRestart", "&appRestartEventPending">> >> ELSE << >>)

EventTimerSends_NoAppRestart ==
    IF noUpdateAvailableEventPending
    THEN << <<"NoUpdateAvailable", "&noUpdateAvailableEventPending">> >>
    ELSE IF updateInstallingEventPending
    THEN << <<"UpdateInstalling", "&updateInstallingEventPending">> >>
    ELSE << >>

\* the (eventName, context) pairs the handler passes to Cloud_SendEvent, in order
EventTimerSends ==
    IF noUpdateAvailableEventPending
    THEN << <<"NoUpdateAvailable", "&noUpdateAvailableEventPending">> >>
    ELSE IF updateInstallingEventPending
    THEN << <<"UpdateInstalling", "&updateInstallingEventPending">> >>
    ELSE IF appRestartEventPending
    THEN << <<"AppRestart", "&appRestartEventPending">> >>
    ELSE << >>

EventTimerPlanned_IgnoreConsume(consume) == EventTimerSends

\* the sends of one tick: none when ConsumeEventLoopTimerEvent fails (the
\* handler returns, the exit code assignment is commented out)
EventTimerPlanned(consume) == IF consume # 0 THEN << >> ELSE EventTimerSends

EventTimerClears_OnSendFailure(sends, flag) ==
    \E i \in 1..Len(sends) : sends[i].context = flag /\ sends[i].result # "Cloud_Result_OK"

EventTimerClears_OnSendOK(sends, flag) ==
    \E i \in 1..Len(sends) : sends[i].context = flag /\ sends[i].result = "Cloud_Result_OK"

\* does the tick clear the flag at address flag after its sends returned as
\* given ("do this on callback": the assignments are commented out)
EventTimerClears(sends, flag) == FALSE

EventTimerCallbackHandler ==
    /\ phase = "running"
    /\ eventTimer # "NULL"
    /\ \E consume \in {0, -1}, aziotResult \in AzureIoT_Results :
        LET planned == EventTimerPlanned(consume)
            sends == [i \in 1..Len(planned) |->
                         Cloud_SendEvent(planned[i][1], planned[i][2], aziotResult)]
        IN  /\ planned = << >> => aziotResult = "AzureIoT_Result_OK"
            /\ InFlightTotal(inFlight) + CountOK(sends) <= MaxInFlight
            /\ inFlight' = SendAll(inFlight, sends)
            /\ noUpdateAvailableEventPending' =
                   IF EventTimerClears(sends, "&noUpdateAvailableEventPending")
                   THEN FALSE ELSE noUpdateAvailableEventPending
            /\ updateInstallingEventPending' =
                   IF EventTimerClears(sends, "&updateInstallingEventPending")
                   THEN FALSE ELSE updateInstallingEventPending
            /\ appRestartEventPending' =
                   IF EventTimerClears(sends, "&appRestartEventPending")
                   THEN FALSE ELSE appRestartEventPending
            /\ lastCall' = [op |-> "EventTimerCallbackHandler", in |-> [consume |-> consume],
                            out |-> [sends |-> sends]]
    /\ UNCHANGED <<phase, eventTimer, latestVersion, callbacks, nullTerminatedPayload>>

(***************************************************************************)
(* Delivery acknowledgement: TelemetryCallbackHandler.                     *)
(***************************************************************************)
TelemetryCallbackClears_AnyContext(success, context, flag) == success

TelemetryCallbackClears_IgnoreSuccess(success, context, flag) == context = flag

\* does TelemetryCallbackHandler(success, context) clear the flag at address flag
TelemetryCallbackClears(success, context, flag) == context = flag /\ success

TelemetryCallbackHandler ==
    /\ phase = "running"
    /\ \E success \in BOOLEAN, context \in Contexts :
        /\ inFlight[context] > 0
        /\ inFlight' = [inFlight EXCEPT ![context] = @ - 1]
        /\ updateInstallingEventPending' =
               IF TelemetryCallbackClears(success, context, "&updateInstallingEventPending")
               THEN FALSE ELSE updateInstallingEventPending
        /\ noUpdateAvailableEventPending' =
               IF TelemetryCallbackClears(success, context, "&noUpdateAvailableEventPending")
               THEN FALSE ELSE noUpdateAvailableEventPending
        /\ appRestartEventPending' =
               IF TelemetryCallbackClears(success, context, "&appRestartEventPending")
               THEN FALSE ELSE appRestartEventPending
        /\ lastCall' = [op |-> "TelemetryCallbackHandler",
                        in |-> [success |-> success, context |-> context], out |-> <<>>]
    /\ UNCHANGED <<phase, eventTimer, latestVersion, callbacks, nullTerminatedPayload>>

(***************************************************************************)
(* Event pending registry: Cloud_SignalNoUpdatePending,                    *)
(* Cloud_SignalUpdateInstalling.                                           *)
(***************************************************************************)
SignalValue_Toggle(old) == ~old

\* the value a signal call stores in its flag
SignalValue(old) == TRUE

Cloud_SignalNoUpdatePending ==
    /\ phase = "running"
    /\ noUpdateAvailableEventPending' = SignalValue(noUpdateAvailableEventPending)
    /\ lastCall' = [op |-> "Cloud_SignalNoUpdatePending", in |-> <<>>,
                    out |-> [previous |-> noUpdateAvailableEventPending]]
    /\ UNCHANGED <<phase, eventTimer, latestVersion, appRestartEventPending,
                   updateInstallingEventPending, callbacks, nullTerminatedPayload, inFlight>>

Cloud_SignalUpdateInstalling ==
    /\ phase = "running"
    /\ updateInstallingEventPending' = SignalValue(updateInstallingEventPending)
    /\ lastCall' = [op |-> "Cloud_SignalUpdateInstalling", in |-> <<>>,
                    out |-> [previous |-> updateInstallingEventPending]]
    /\ UNCHANGED <<phase, eventTimer, latestVersion, appRestartEventPending,
                   noUpdateAvailableEventPending, callbacks, nullTerminatedPayload, inFlight>>

(***************************************************************************)
(* Plain telemetry: Cloud_SendTelemetry, Cloud_SendThermometerMovedEvent.  *)
(* Both send with a NULL context.                                          *)
(***************************************************************************)
SendWithNullContext(name) ==
    /\ phase = "running"
    /\ \E aziotResult \in AzureIoT_Results :
        /\ aziotResult = "AzureIoT_Result_OK" => InFlightTotal(inFlight) < MaxInFlight
        /\ inFlight' = AzureIoT_SendTelemetry(inFlight, "NULL", aziotResult)
        /\ lastCall' = [op |-> name, in |-> <<>>,
                        out |-> [result |-> AzureIoTToCloudResult(aziotResult)]]
    /\ UNCHANGED <<phase, eventTimer, latestVersion, flags, callbacks, nullTerminatedPayload>>

Cloud_SendTelemetry == SendWithNullContext("Cloud_SendTelemetry")

Cloud_SendThermometerMovedEvent == SendWithNullContext("Cloud_SendThermometerMovedEvent")

(***************************************************************************)
(* Desired-property reconciliation: DeviceTwinCallbackHandler.             *)
(*                                                                         *)
(* A document is malformed, a JSON value that is no object, or an object   *)
(* with members at its root and possibly a nested "desired" object.  The   *)
(* members that matter are "thermometerTelemetryUploadEnabled" (absent, a  *)
(* boolean, or a value of another type) and "$version" (absent or a        *)
(* number).  A JSON number is a double; it is kept in halves, so that 7    *)
(* stands for 3.5.  A pointer is << >> (NULL) or <<object>>.  A malformed  *)
(* document is a text that does not parse (an object cut short, say); its  *)
(* root holds the members the text spells out.                             *)
(***************************************************************************)
Null == << >>

\* -1, -0.5, the integers 0 .. UINT_MAX, UINT_MAX + 0.5 - 1, UINT_MAX + 1
JsonNumbers == {-2, -1} \cup {2 * n : n \in 0..UIntModulus} \cup {2 * UIntModulus - 1}

JsonObjects == [prop : {"absent", "true", "false", "number"},
                version : {<< >>} \cup {<<h>> : h \in JsonNumbers}]

EmptyObject == [prop |-> "absent", version |-> << >>]

\* root members that a nested "desired" object must take precedence over
StaleRootObject == [prop |-> "true", version |-> <<2 * (UIntModulus - 1)>>]

\* a few documents of each shape
CoreTwinDocuments ==
    {[kind |-> "malformed", root |-> EmptyObject, desired |-> Null],
     [kind |-> "malformed", root |-> StaleRootObject, desired |-> Null],
     [kind |-> "nonobject", root |-> EmptyObject, desired |-> Null],
     [kind |-> "object", root |-> EmptyObject, desired |-> Null],
     [kind |-> "object", root |-> [prop |-> "true", version |-> <<4>>], desired |-> Null],
     [kind |-> "object", root |-> StaleRootObject,
      desired |-> <<[prop |-> "false", version |-> <<2 * UIntModulus - 3>>]>>]}

TwinDocuments ==
    {[kind |-> "malformed", root |-> EmptyObject, desired |-> Null],
     [kind |-> "malformed", root |-> StaleRootObject, desired |-> Null],
     [kind |-> "malformed", root |-> EmptyObject, desired |-> <<StaleRootObject>>],
     [kind |-> "nonobject", root |-> EmptyObject, desired |-> Null]}
    \cup {[kind |-> "object", root |-> o, desired |-> Null] : o \in JsonObjects}
    \cup {[kind |-> "object", root |-> EmptyObject, desired |-> <<o>>] : o \in JsonObjects}
    \cup {[kind |-> "object", root |-> StaleRootObject, desired |-> <<o>>] :
              o \in {x \in JsonObjects : x.version \in {<< >>, <<2>>}}}

json_parse_string_Lenient(doc) == <<doc>>

json_parse_string(doc) == IF doc.kind = "malformed" THEN Null ELSE <<doc>>

json_value_get_object(value) ==
    IF value = Null \/ value[1].kind = "nonobject" THEN Null ELSE value

\* json_object_dotget_object(rootObject, "desired")
json_object_dotget_object(object) ==
    IF object = Null THEN Null ELSE object[1].desired

DesiredProperties_RootOnly(rootObject) ==
    IF rootObject = Null THEN Null ELSE <<rootObject[1].root>>

\* the members of the object desiredProperties points to
DesiredProperties(rootObject) ==
    LET desiredProperties == json_object_dotget_object(rootObject)
    IN  IF desiredProperties = Null
        THEN (IF rootObject = Null THEN Null ELSE <<rootObject[1].root>>)
        ELSE desiredProperties

\* json_object_dotget_boolean(desiredProperties, "thermometerTelemetryUploadEnabled")
json_object_dotget_boolean(object) ==
    IF object = Null THEN -1
    ELSE CASE object[1].prop = "true"  -> 1
           [] object[1].prop = "false" -> 0
           [] OTHER                    -> -1

\* json_object_dotget_number(desiredProperties, "$version"), in halves
json_object_dotget_number(object) ==
    IF object = Null \/ object[1].version = << >> THEN 0 ELSE object[1].version[1]

\* (unsigned int) of a double given in halves: the values the conversion can
\* give; it truncates toward zero and is undefined outside (-1, UINT_MAX + 1)
CastToUnsignedInt(halves) ==
    IF halves > -2 /\ halves < 2 * UIntModulus
    THEN {IF halves < 0 THEN 0 ELSE halves \div 2}
    ELSE 0 .. (UIntModulus - 1)

TwinLatestVersion_Ungated(requestedVersion, stored) == requestedVersion

TwinLatestVersion_Swapped(requestedVersion, stored) ==
    IF requestedVersion < stored THEN requestedVersion ELSE stored

\* latestVersion after the version gate
TwinLatestVersion(requestedVersion, stored) ==
    IF requestedVersion > stored THEN requestedVersion ELSE stored

TwinCalls_GatedByVersion(value, requestedVersion, stored, fn) ==
    IF requestedVersion > stored THEN <<[fn |-> fn, arg |-> (value = 1)]>> ELSE << >>

TwinCalls_Twice(value, requestedVersion, stored, fn) ==
    <<[fn |-> fn, arg |-> (value = 1)], [fn |-> fn, arg |-> (value = 1)]>>

\* the calls of the upload-enabled callback fn the handler makes once it has
\* found the boolean value
TwinCalls(value, requestedVersion, stored, fn) == <<[fn |-> fn, arg |-> (value = 1)]>>

\* what the handler can do with doc when the counter is stored and the
\* upload-enabled callback is fn: the new counter and the calls made
TwinOutcomes(doc, stored, fn) ==
    LET rootProperties == json_parse_string(doc)
        rootObject == json_value_get_object(rootProperties)
        desiredProperties == DesiredProperties(rootObject)
        value == json_object_dotget_boolean(desiredProperties)
    IN  IF rootProperties = Null \/ value = -1
        THEN {[latestVersion |-> stored, requestedVersion |-> Null, higher |-> FALSE,
               calls |-> << >>]}
        ELSE {[latestVersion |-> TwinLatestVersion(requestedVersion, stored),
               requestedVersion |-> <<requestedVersion>>,
               higher |-> (requestedVersion > stored),
               calls |-> TwinCalls(value, requestedVersion, stored, fn)] :
                  requestedVersion \in
                      CastToUnsignedInt(json_object_dotget_number(desiredProperties))}

DeviceTwinCallbackHandler(documents) ==
    /\ phase = "running"
    /\ \E doc \in documents :
        \E outcome \in TwinOutcomes(doc, latestVersion,
                                    thermometerTelemetryUploadEnabledChangedCallbackFunction) :
            /\ latestVersion' = outcome.latestVersion
            /\ lastCall' = [op |-> "DeviceTwinCallbackHandler", in |-> [doc |-> doc],
                            out |-> [requestedVersion |-> outcome.requestedVersion,
                                     higher |-> outcome.higher,
                                     calls |-> outcome.calls]]
    /\ UNCHANGED <<phase, eventTimer, flags, callbacks, nullTerminatedPayload, inFlight>>

(***************************************************************************)
(* Reports: Cloud_SendThermometerTelemetryUploadEnabledChangedEvent,       *)
(* Cloud_SendDeviceDetails.  AzureIoT_DeviceTwinReportState is called with *)
(* a NULL context and no acknowledgement callback is registered for it.    *)
(***************************************************************************)
\* latestVersion++ on an unsigned int
IncrementVersion(version) == (version + 1) % UIntModulus

ReportStamp_PreIncrement(version) == IncrementVersion(version)

\* the "av" number of the report: latestVersion++ yields the value before
\* the increment
ReportStamp(version) == version

Cloud_SendThermometerTelemetryUploadEnabledChangedEvent ==
    /\ phase = "running"
    /\ \E uploadEnabled \in BOOLEAN, aziotResult \in AzureIoT_Results :
        /\ latestVersion' = IncrementVersion(latestVersion)
        /\ lastCall' = [op |-> "Cloud_SendThermometerTelemetryUploadEnabledChangedEvent",
                        in |-> [uploadEnabled |-> uploadEnabled],
                        out |-> [value |-> (IF uploadEnabled THEN 1 ELSE 0), ac |-> 200,
                                 av |-> ReportStamp(latestVersion),
                                 result |-> AzureIoTToCloudResult(aziotResult)]]
    /\ UNCHANGED <<phase, eventTimer, flags, callbacks, nullTerminatedPayload, inFlight>>

Cloud_SendDeviceDetails ==
    /\ phase = "running"
    /\ \E aziotResult \in AzureIoT_Results :
        lastCall' = [op |-> "Cloud_SendDeviceDetails", in |-> << >>,
                     out |-> [result |-> AzureIoTToCloudResult(aziotResult)]]
    /\ UNCHANGED <<phase, eventTimer, latestVersion, flags, callbacks, nullTerminatedPayload,
                   inFlight>>

(***************************************************************************)
(* ConnectionChangedCallbackHandler.                                       *)
(***************************************************************************)
ConnectionChangedCallbackHandler ==
    /\ phase = "running"
    /\ \E connected \in BOOLEAN :
        lastCall' = [op |-> "ConnectionChangedCallbackHandler",
                     in |-> [connected |-> connected],
                     out |-> [calls |-> <<[fn |-> connectionChangedCallbackFunction,
                                           arg |-> connected]>>]]
    /\ UNCHANGED <<phase, eventTimer, latestVersion, flags, callbacks, nullTerminatedPayload,
                   inFlight>>

(***************************************************************************)
(* Command dispatch: DeviceMethodCallbackHandler.  A byte is 0 (NUL) or a  *)
(* character code; a payload is a sequence of bytes, payloadSize its       *)
(* length.                                                                 *)
(***************************************************************************)
Bytes == {0, 1, 2}

CorePayloads == {<<1>>, [i \in 1..(MAX_PAYLOAD_SIZE + 1) |-> 1]}

Payloads == UNION {[1..n -> Bytes] : n \in 0..(MAX_PAYLOAD_SIZE + 1)}

MethodNames == {"displayAlert", "reboot"}

\* strncpy(dest, src, n): copies up to the first NUL of src, then pads with NULs
strncpy(dest, src, n) ==
    [i \in DOMAIN dest |->
        IF i < n
        THEN (IF \E j \in 1..(i + 1) : src[j] = 0 THEN 0 ELSE src[i + 1])
        ELSE dest[i]]

\* the C string that starts at buffer[0]: the bytes before the first NUL
RECURSIVE CStringFrom(_, _)
CStringFrom(buffer, i) ==
    IF i \notin DOMAIN buffer
    THEN << >>    \* no terminator inside the buffer
    ELSE IF buffer[i] = 0 THEN << >> ELSE <<buffer[i]>> \o CStringFrom(buffer, i + 1)

CString(buffer) == CStringFrom(buffer, 0)

ActualPayloadSize(payloadSize) ==
    IF payloadSize > MAX_PAYLOAD_SIZE THEN MAX_PAYLOAD_SIZE ELSE payloadSize

CopyPayload_NoTerminator(buffer, payload) ==
    strncpy(buffer, payload, ActualPayloadSize(Len(payload)))

\* nullTerminatedPayload after lines 368-371
CopyPayload(buffer, payload) ==
    LET actualPayloadSize == ActualPayloadSize(Len(payload))
    IN  [strncpy(buffer, payload, actualPayloadSize) EXCEPT ![actualPayloadSize] = 0]

MethodDispatch_CallsBeforeMatch(methodName, buffer, fn) ==
    IF methodName = "displayAlert"
    THEN [result |-> 200, responseString |-> "\"Alert message displayed successfully.\"",
          calls |-> <<[fn |-> fn, arg |-> CString(buffer)]>>]
    ELSE [result |-> -1, responseString |-> "{}",
          calls |-> <<[fn |-> fn, arg |-> CString(buffer)]>>]

\* *responseSize = strlen(responseString): the bytes malloc'ed and copied
ResponseSize(responseString) == Len(responseString)

\* result, responseString and callback calls of the dispatch
MethodDispatch(methodName, buffer, fn) ==
    IF methodName = "displayAlert"
    THEN [result |-> 200, responseString |-> "\"Alert message displayed successfully.\"",
          calls |-> <<[fn |-> fn, arg |-> CString(buffer)]>>]
    ELSE [result |-> -1, responseString |-> "{}", calls |-> << >>]

DeviceMethodCallbackHandler(payloads) ==
    /\ phase = "running"
    /\ \E methodName \in MethodNames, payload \in payloads :
        LET buffer == CopyPayload(nullTerminatedPayload, payload)
            dispatch == MethodDispatch(methodName, buffer, displayAlertCallbackFunction)
        IN  /\ nullTerminatedPayload' = buffer
            /\ lastCall' = [op |-> "DeviceMethodCallbackHandler",
                            in |-> [methodName |-> methodName, payload |-> payload],
                            out |-> [result |-> dispatch.result,
                                     response |-> dispatch.responseString,
                                     responseSize |-> ResponseSize(dispatch.responseString),
                                     calls |-> dispatch.calls]]
    /\ UNCHANGED <<phase, eventTimer, latestVersion, flags, callbacks, inFlight>>

(***************************************************************************)
(* Specifications.  Spec interleaves every entry point, the reconciliation *)
(* and the command dispatch over a few inputs of each shape.  SpecRetry is *)
(* the retry state machine alone; SpecTwin is the reconciliation and the   *)
(* reports over all documents; SpecMethod is the command dispatch over all *)
(* payloads.                                                               *)
(***************************************************************************)
Next ==
    \/ Cloud_Initialize
    \/ EventTimerCallbackHandler
    \/ TelemetryCallbackHandler
    \/ Cloud_SignalNoUpdatePending
    \/ Cloud_SignalUpdateInstalling
    \/ Cloud_SendTelemetry
    \/ Cloud_SendThermometerMovedEvent
    \/ DeviceTwinCallbackHandler(CoreTwinDocuments)
    \/ Cloud_SendThermometerTelemetryUploadEnabledChangedEvent
    \/ Cloud_SendDeviceDetails
    \/ ConnectionChangedCallbackHandler
    \/ DeviceMethodCallbackHandler(CorePayloads)

Spec == Init /\ [][Next]_vars

NextRetry ==
    \/ Cloud_Initialize
    \/ EventTimerCallbackHandler
    \/ TelemetryCallbackHandler
    \/ Cloud_SignalNoUpdatePending
    \/ Cloud_SignalUpdateInstalling
    \/ Cloud_SendTelemetry
    \/ Cloud_SendThermometerMovedEvent

SpecRetry == Init /\ [][NextRetry]_vars

\* the retry state machine under the scheduling of the event loop: the
\* periodic timer keeps firing and the transport keeps delivering the
\* acknowledgements it owes
SpecLive ==
    /\ Init
    /\ [][NextRetry]_vars
    /\ WF_vars(EventTimerCallbackHandler)
    /\ WF_vars(TelemetryCallbackHandler)

NextTwin ==
    \/ Cloud_Initialize
    \/ DeviceTwinCallbackHandler(TwinDocuments)
    \/ Cloud_SendThermometerTelemetryUploadEnabledChangedEvent
    \/ Cloud_SendDeviceDetails

SpecTwin == Init /\ [][NextTwin]_vars

NextMethod ==
    \/ Cloud_Initialize
    \/ DeviceMethodCallbackHandler(Payloads)
    \/ ConnectionChangedCallbackHandler

SpecMethod == Init /\ [][NextMethod]_vars

(***************************************************************************)
(* Properties.                                                             *)
(***************************************************************************)
IsTick(call) == call.op = "EventTimerCallbackHandler"

IsAck(call) == call.op = "TelemetryCallbackHandler"

IsTwin(call) == call.op = "DeviceTwinCallbackHandler"

\* priority of the three notifications, 1 first
Rank(context) ==
    CASE context = "&noUpdateAvailableEventPending" -> 1
      [] context = "&updateInstallingEventPending"  -> 2
      [] context = "&appRestartEventPending"        -> 3

EventNameOf(context) ==
    CASE context = "&noUpdateAvailableEventPending" -> "NoUpdateAvailable"
      [] context = "&updateInstallingEventPending"  -> "UpdateInstalling"
      [] context = "&appRestartEventPending"        -> "AppRestart"

FirstPending(context) ==
    /\ Deref(context)
    /\ \A other \in FlagContexts : Rank(other) < Rank(context) => ~Deref(other)

\* the object a document is reconciled from, read off the document
SectionOf(doc) == IF doc.desired # Null THEN doc.desired[1] ELSE doc.root

HasBoolean(doc) == doc.kind = "object" /\ SectionOf(doc).prop \in {"true", "false"}

\* the document carries a version that is an integer in the range of unsigned int
HasUnsignedVersion(doc) ==
    /\ doc.kind = "object"
    /\ SectionOf(doc).version # << >>
    /\ SectionOf(doc).version[1] % 2 = 0
    /\ SectionOf(doc).version[1] >= 0
    /\ SectionOf(doc).version[1] < 2 * UIntModulus

UnsignedVersion(doc) == SectionOf(doc).version[1] \div 2

\* C1: for each of the three notifications at most one send is in flight
\* (issued and not yet acknowledged) at any time.
C1_AtMostOneInFlight == \A context \in FlagContexts : inFlight[context] <= 1

\* C2: a flag that is pending stays pending in every step except a
\* TelemetryCallbackHandler call with success = true and the context of that
\* flag: no tick, failed acknowledgement, signal, reconciliation, command
\* dispatch or report clears it.
C2_ClearedOnlyBySuccessfulAck ==
    [][\A context \in FlagContexts :
          (Deref(context) /\ ~Deref(context)') =>
              (IsAck(lastCall') /\ lastCall'.in.success /\ lastCall'.in.context = context)]_vars

C2_Witness ==
    /\ IsTick(lastCall)
    /\ lastCall.out.sends # << >>
    /\ lastCall.out.sends[1].result = "Cloud_Result_OK"
    /\ Deref(lastCall.out.sends[1].context)

\* C3: TelemetryCallbackHandler(success, context) clears the flag the context
\* points to when success is true and changes no other flag; with a context
\* that is none of the three flags (NULL) or with success = false it changes
\* no flag.
C3_AckChangesOnlyItsFlag ==
    [][IsAck(lastCall') =>
          \A context \in FlagContexts :
              Deref(context)' =
                  IF lastCall'.in.success /\ lastCall'.in.context = context
                  THEN FALSE ELSE Deref(context)]_vars

C3_Witness ==
    /\ IsAck(lastCall)
    /\ lastCall.in.success
    /\ lastCall.in.context = "&updateInstallingEventPending"
    /\ ~updateInstallingEventPending
    /\ noUpdateAvailableEventPending
    /\ appRestartEventPending

\* C4 as claimed: a failed acknowledgement for a pending event X leaves X
\* pending, and the tick that follows it (and consumes its timer event)
\* attempts delivery of X.
C4_FailedAckThenTickResends ==
    [][/\ \A context \in FlagContexts :
              (IsAck(lastCall') /\ ~lastCall'.in.success /\ lastCall'.in.context = context
                  /\ Deref(context)) => Deref(context)'
       /\ (IsAck(lastCall) /\ ~lastCall.in.success /\ lastCall.in.context \in FlagContexts
              /\ Deref(lastCall.in.context)
              /\ IsTick(lastCall') /\ lastCall'.in.consume = 0)
          => \E i \in 1..Len(lastCall'.out.sends) :
                 lastCall'.out.sends[i].context = lastCall.in.context]_vars

\* C4 amended: a failed acknowledgement leaves every flag as it was, and a
\* tick that consumes its timer event while X is pending and no event of
\* higher priority is pending attempts delivery of X; while an event of
\* higher priority is pending the tick does not attempt X.
C4_FailedAckKeepsFlagFirstPendingResent ==
    [][/\ (IsAck(lastCall') /\ ~lastCall'.in.success) => flags' = flags
       /\ (IsTick(lastCall') /\ lastCall'.in.consume = 0) =>
              \A context \in FlagContexts :
                  FirstPending(context) <=>
                      (\E i \in 1..Len(lastCall'.out.sends) :
                           lastCall'.out.sends[i].context = context)]_vars

C4_Witness ==
    /\ IsAck(lastCall)
    /\ ~lastCall.in.success
    /\ lastCall.in.context = "&appRestartEventPending"
    /\ FirstPending("&appRestartEventPending")

\* C5: a tick issues at most one send; the send is for the first pending
\* event in the order NoUpdateAvailable, UpdateInstalling, AppRestart, under
\* that event's name and tagged with that event's flag; whatever the send
\* returns, no other event is sent in the tick and the transport holds
\* nothing new but that send.
C5_OneSendPerTickByPriority ==
    [][IsTick(lastCall') =>
          LET sends == lastCall'.out.sends
          IN  /\ Len(sends) <= 1
              /\ \A i \in 1..Len(sends) :
                    /\ sends[i].context \in FlagContexts
                    /\ FirstPending(sends[i].context)
                    /\ sends[i].eventName = EventNameOf(sends[i].context)
              /\ \A context \in Contexts :
                    inFlight'[context] - inFlight[context] =
                        IF /\ sends # << >>
                           /\ sends[1].context = context
                           /\ sends[1].result = "Cloud_Result_OK"
                        THEN 1 ELSE 0]_vars

C5_Witness ==
    /\ IsTick(lastCall)
    /\ Len(lastCall.out.sends) = 1
    /\ lastCall.out.sends[1].eventName = "NoUpdateAvailable"
    /\ lastCall.out.sends[1].result = "Cloud_Result_NoNetwork"
    /\ noUpdateAvailableEventPending
    /\ appRestartEventPending

\* C6: a signal call leaves its flag pending, and a call made while the flag
\* is already pending changes nothing: the flags, the version counter, the
\* callbacks and the transport are as after the first call.
C6_SignalIdempotent ==
    [][/\ lastCall'.op = "Cloud_SignalNoUpdatePending" =>
              /\ noUpdateAvailableEventPending'
              /\ noUpdateAvailableEventPending =>
                     <<flags, latestVersion, callbacks, inFlight>>'
                         = <<flags, latestVersion, callbacks, inFlight>>
       /\ lastCall'.op = "Cloud_SignalUpdateInstalling" =>
              /\ updateInstallingEventPending'
              /\ updateInstallingEventPending =>
                     <<flags, latestVersion, callbacks, inFlight>>'
                         = <<flags, latestVersion, callbacks, inFlight>>]_vars

C6_Witness ==
    /\ lastCall.op = "Cloud_SignalUpdateInstalling"
    /\ lastCall.out.previous
    /\ updateInstallingEventPending
    /\ inFlight["&updateInstallingEventPending"] > 0

\* C7: no call of DeviceTwinCallbackHandler, whatever the document and its
\* version, lowers latestVersion.
C7_VersionNeverDecreases ==
    [][IsTwin(lastCall') => latestVersion' >= latestVersion]_vars

C7_Witness ==
    /\ IsTwin(lastCall)
    /\ lastCall.out.requestedVersion # Null
    /\ lastCall.out.requestedVersion[1] < latestVersion

\* C8 as claimed: after DeviceTwinCallbackHandler has processed any parsed
\* document whose version is greater than the stored counter, the counter
\* equals the version of the document.
C8_AnyHigherVersionStored ==
    [][(IsTwin(lastCall') /\ HasUnsignedVersion(lastCall'.in.doc)
            /\ UnsignedVersion(lastCall'.in.doc) > latestVersion)
          => latestVersion' = UnsignedVersion(lastCall'.in.doc)]_vars

\* C8 amended: the counter starts at 1; after DeviceTwinCallbackHandler has
\* processed a parsed document that carries the boolean property and a
\* version (an integer in the range of unsigned int) greater than the stored
\* counter, the counter equals that version; a parsed document without the
\* boolean property leaves the counter as it was.
C8_HigherVersionOfBooleanDocumentStored ==
    /\ latestVersion = 1
    /\ [][IsTwin(lastCall') =>
            /\ (HasBoolean(lastCall'.in.doc) /\ HasUnsignedVersion(lastCall'.in.doc)
                    /\ UnsignedVersion(lastCall'.in.doc) > latestVersion)
                  => latestVersion' = UnsignedVersion(lastCall'.in.doc)
            /\ ~HasBoolean(lastCall'.in.doc) => latestVersion' = latestVersion]_vars

C8_Witness ==
    /\ IsTwin(lastCall)
    /\ lastCall.in.doc.desired # Null
    /\ lastCall.in.doc.desired[1] = [prop |-> "true", version |-> <<14>>]
    /\ lastCall.out.higher
    /\ latestVersion = 7

\* C9: a document that carries the boolean property and a version lower than
\* or equal to the stored counter (and not below 0) makes
\* DeviceTwinCallbackHandler call the upload-enabled callback once with the
\* boolean of the document, and leaves the counter as it was.
C9_StaleVersionStillApplied ==
    [][(IsTwin(lastCall') /\ HasBoolean(lastCall'.in.doc)
            /\ SectionOf(lastCall'.in.doc).version # << >>
            /\ SectionOf(lastCall'.in.doc).version[1] > -2
            /\ SectionOf(lastCall'.in.doc).version[1] <= 2 * latestVersion)
          => /\ lastCall'.out.calls =
                    <<[fn |-> thermometerTelemetryUploadEnabledChangedCallbackFunction,
                       arg |-> (SectionOf(lastCall'.in.doc).prop = "true")]>>
             /\ latestVersion' = latestVersion]_vars

C9_Witness ==
    /\ IsTwin(lastCall)
    /\ ~lastCall.out.higher
    /\ SectionOf(lastCall.in.doc) = [prop |-> "true", version |-> <<2>>]
    /\ latestVersion = 3
    /\ lastCall.out.calls = <<[fn |-> "UploadEnabledChanged", arg |-> TRUE]>>

\* C10: for a parsed document DeviceTwinCallbackHandler calls the
\* upload-enabled callback exactly once, with the boolean of the document,
\* when the document carries the boolean property, and not at all when it
\* does not.
C10_CallbackOncePerBooleanDocument ==
    [][(IsTwin(lastCall') /\ lastCall'.in.doc.kind # "malformed") =>
          lastCall'.out.calls =
              IF HasBoolean(lastCall'.in.doc)
              THEN <<[fn |-> thermometerTelemetryUploadEnabledChangedCallbackFunction,
                      arg |-> (SectionOf(lastCall'.in.doc).prop = "true")]>>
              ELSE << >>]_vars

C10_Witness ==
    /\ IsTwin(lastCall)
    /\ lastCall.in.doc.root = StaleRootObject
    /\ lastCall.in.doc.desired # Null
    /\ lastCall.in.doc.desired[1].prop = "false"
    /\ lastCall.out.calls = <<[fn |-> "UploadEnabledChanged", arg |-> FALSE]>>

\* C11: a document that does not parse makes DeviceTwinCallbackHandler call
\* no callback and change nothing: the version counter, the three flags, the
\* registered callbacks and everything else are as before the call.
C11_MalformedDocumentChangesNothing ==
    [][(IsTwin(lastCall') /\ lastCall'.in.doc.kind = "malformed") =>
          /\ lastCall'.out.calls = << >>
          /\ <<latestVersion, flags, callbacks, phase, eventTimer, nullTerminatedPayload,
               inFlight>>'
                 = <<latestVersion, flags, callbacks, phase, eventTimer,
                     nullTerminatedPayload, inFlight>>]_vars

C11_Witness ==
    /\ IsTwin(lastCall)
    /\ lastCall.in.doc.kind = "malformed"
    /\ lastCall.in.doc.root.prop = "true"
    /\ noUpdateAvailableEventPending
    /\ latestVersion > 1
    /\ thermometerTelemetryUploadEnabledChangedCallbackFunction = "UploadEnabledChanged"

\* the two shapes of one desired section
AsDelta(doc) == [kind |-> "object", root |-> SectionOf(doc), desired |-> Null]

AsFullTwin(doc) == [kind |-> "object", root |-> EmptyObject, desired |-> <<SectionOf(doc)>>]

OutcomeOfCall ==
    [latestVersion |-> latestVersion, requestedVersion |-> lastCall.out.requestedVersion,
     higher |-> lastCall.out.higher, calls |-> lastCall.out.calls]

\* C14: what DeviceTwinCallbackHandler does with a document (the callback
\* call it makes and the counter it leaves) is what it does, from the same
\* counter, with the other shape of that document: the section nested under
\* "desired" for a delta-only document, the bare section for a full twin.
C14_DeltaAndFullTwinReconciledAlike ==
    [][(IsTwin(lastCall') /\ lastCall'.in.doc.kind = "object") =>
          /\ OutcomeOfCall' \in
                 TwinOutcomes(AsDelta(lastCall'.in.doc), latestVersion,
                              thermometerTelemetryUploadEnabledChangedCallbackFunction)
          /\ OutcomeOfCall' \in
                 TwinOutcomes(AsFullTwin(lastCall'.in.doc), latestVersion,
                              thermometerTelemetryUploadEnabledChangedCallbackFunction)]_vars

C14_Witness ==
    /\ IsTwin(lastCall)
    /\ lastCall.in.doc.kind = "object"
    /\ lastCall.in.doc.desired = Null
    /\ lastCall.in.doc.root.prop = "false"
    /\ lastCall.out.higher
    /\ lastCall.out.calls = <<[fn |-> "UploadEnabledChanged", arg |-> FALSE]>>

IsMethod(call) == call.op = "DeviceMethodCallbackHandler"

Min(a, b) == IF a < b THEN a ELSE b

\* C12: for methodName "displayAlert" DeviceMethodCallbackHandler returns 200
\* with the fixed JSON string as body and calls the display-alert callback
\* exactly once; for any other name it returns -1 with the body "{}" and
\* calls nothing; the reported size is the length of the body (39 and 2).
C12_DispatchByMethodName ==
    [][IsMethod(lastCall') =>
          /\ lastCall'.out.responseSize = Len(lastCall'.out.response)
          /\ IF lastCall'.in.methodName = "displayAlert"
             THEN /\ lastCall'.out.result = 200
                  /\ lastCall'.out.response = "\"Alert message displayed successfully.\""
                  /\ lastCall'.out.responseSize = 39
                  /\ Len(lastCall'.out.calls) = 1
                  /\ lastCall'.out.calls[1].fn = displayAlertCallbackFunction
             ELSE /\ lastCall'.out.result = -1
                  /\ lastCall'.out.response = "{}"
                  /\ lastCall'.out.responseSize = 2
                  /\ lastCall'.out.calls = << >>]_vars

C12_Witness ==
    /\ IsMethod(lastCall)
    /\ lastCall.in.methodName = "reboot"
    /\ lastCall.in.payload # << >>
    /\ lastCall.out.result = -1
    /\ lastCall.out.calls = << >>
    /\ displayAlertCallbackFunction = "DisplayAlert"

\* C13: the string handed to the display-alert callback is the payload cut
\* to min(payloadSize, MAX_PAYLOAD_SIZE) bytes and read up to its first NUL:
\* it is no longer than that, it has exactly that length when those bytes
\* hold no NUL, every byte of it is a byte of this payload (none is left
\* over from an earlier call), and the buffer holds a NUL at that length for
\* every method name.
C13_PayloadTruncatedAndTerminated ==
    [][IsMethod(lastCall') =>
          LET payload == lastCall'.in.payload
              size == Min(Len(payload), MAX_PAYLOAD_SIZE)
          IN  /\ nullTerminatedPayload'[size] = 0
              /\ \A k \in 1..Len(lastCall'.out.calls) :
                    LET handled == lastCall'.out.calls[k].arg
                    IN  /\ Len(handled) <= size
                        /\ \A i \in 1..Len(handled) : handled[i] = payload[i]
                        /\ Len(handled) < size => payload[Len(handled) + 1] = 0]_vars

C13_Witness ==
    /\ IsMethod(lastCall)
    /\ lastCall.in.methodName = "displayAlert"
    /\ Len(lastCall.in.payload) = MAX_PAYLOAD_SIZE + 1
    /\ \A i \in 1..Len(lastCall.in.payload) : lastCall.in.payload[i] # 0
    /\ Len(lastCall.out.calls[1].arg) = MAX_PAYLOAD_SIZE

IsSignal(call) == call.op \in {"Cloud_SignalNoUpdatePending", "Cloud_SignalUpdateInstalling"}

\* the flag a signal call sets
SignalContext(call) ==
    IF call.op = "Cloud_SignalNoUpdatePending"
    THEN "&noUpdateAvailableEventPending" ELSE "&updateInstallingEventPending"

\* the tick sent the event of this context and the send returned a failure
FailedSendFor(call, context) ==
    /\ IsTick(call)
    /\ \E i \in 1..Len(call.out.sends) :
          call.out.sends[i].context = context /\ call.out.sends[i].result # "Cloud_Result_OK"

Attempts(call, context) ==
    \E i \in 1..Len(call.out.sends) : call.out.sends[i].context = context

ProgramState ==
    <<phase, eventTimer, latestVersion, flags, callbacks, nullTerminatedPayload, inFlight>>

\* C15 as claimed: a tick whose send for X fails changes nothing, a send
\* that returns OK leaves the flag pending, and the next tick that consumes
\* its timer event attempts X again: directly after the failing tick, and
\* after a step in between, which therefore leaves X the first pending
\* event.
C15_FailedSendRetriedByNextTick ==
    [][\A context \in FlagContexts :
          /\ FailedSendFor(lastCall', context) => ProgramState' = ProgramState
          /\ (IsTick(lastCall') /\ Attempts(lastCall', context)) => Deref(context)'
          /\ (FailedSendFor(lastCall, context) /\ IsTick(lastCall') /\ lastCall'.in.consume = 0)
                 => Attempts(lastCall', context)
          /\ (FailedSendFor(lastCall, context) /\ ~IsTick(lastCall'))
                 => FirstPending(context)']_vars

\* C15 amended: a tick whose send for X fails changes no state; a send that
\* returns OK leaves the flag pending and adds one send awaiting its
\* acknowledgement; a consumed tick directly after the failing tick attempts
\* X again; a step in between leaves X the first pending event unless it
\* signals an event of higher priority (which the next tick attempts
\* instead) or successfully acknowledges an earlier send for X.
C15_FailedSendRetriedUnlessOutranked ==
    [][\A context \in FlagContexts :
          /\ FailedSendFor(lastCall', context) => ProgramState' = ProgramState
          /\ (IsTick(lastCall') /\ Attempts(lastCall', context)) =>
                 /\ Deref(context)'
                 /\ flags' = flags
                 /\ inFlight' = [inFlight EXCEPT ![context] =
                        @ + (IF FailedSendFor(lastCall', context) THEN 0 ELSE 1)]
          /\ (FailedSendFor(lastCall, context) /\ IsTick(lastCall') /\ lastCall'.in.consume = 0)
                 => Attempts(lastCall', context)
          /\ (FailedSendFor(lastCall, context) /\ ~IsTick(lastCall')) =>
                 (FirstPending(context)' <=>
                     ~ \/ /\ IsSignal(lastCall')
                          /\ Rank(SignalContext(lastCall')) < Rank(context)
                       \/ /\ IsAck(lastCall')
                          /\ lastCall'.in.success
                          /\ lastCall'.in.context = context)]_vars

C15_Witness ==
    /\ IsTick(lastCall)
    /\ FailedSendFor(lastCall, "&updateInstallingEventPending")
    /\ lastCall.out.sends[1].result = "Cloud_Result_NoNetwork"
    /\ updateInstallingEventPending
    /\ inFlight["&updateInstallingEventPending"] = 1

\* C16: a tick whose ConsumeEventLoopTimerEvent fails sends nothing and
\* changes no state: no flag, no send awaiting acknowledgement, and the
\* component keeps running (no exit code is raised); a tick that follows it
\* and consumes its event attempts the first pending event.
C16_ConsumeFailureSkipsTick ==
    [][/\ (IsTick(lastCall') /\ lastCall'.in.consume # 0) =>
              /\ lastCall'.out.sends = << >>
              /\ ProgramState' = ProgramState
              /\ phase' = "running"
       /\ (IsTick(lastCall) /\ lastCall.in.consume # 0
              /\ IsTick(lastCall') /\ lastCall'.in.consume = 0) =>
              \A context \in FlagContexts :
                  FirstPending(context) => Attempts(lastCall', context)]_vars

C16_Witness ==
    /\ IsTick(lastCall)
    /\ lastCall.in.consume = -1
    /\ lastCall.out.sends = << >>
    /\ noUpdateAvailableEventPending
    /\ appRestartEventPending
    /\ phase = "running"

\* C17: when creation of the periodic timer fails, Cloud_Initialize returns
\* ExitCode_Init_TelemetryTimer without calling AzureIoT_Initialize, and
\* once it has run with the timer still NULL no handler runs any more: no
\* tick, acknowledgement, reconciliation or command dispatch.
C17_TimerFailureAbortsBeforeTransport ==
    [][/\ (lastCall'.op = "Cloud_Initialize" /\ eventTimer' = "NULL") =>
              /\ lastCall'.out.exitCode = "ExitCode_Init_TelemetryTimer"
              /\ ~lastCall'.out.iotInitializeCalled
       /\ (phase # "start" /\ eventTimer = "NULL") => lastCall' = lastCall]_vars

C17_Witness ==
    /\ lastCall.op = "Cloud_Initialize"
    /\ ~lastCall.in[2]
    /\ eventTimer = "NULL"
    /\ lastCall.out.exitCode = "ExitCode_Init_TelemetryTimer"
    /\ phase = "aborted"
    /\ connectionChangedCallbackFunction = "ConnectionChanged"

\* a signal call made while a send for its event awaits its acknowledgement
SignalledWhileInFlight(call, context) ==
    /\ IsSignal(call)
    /\ SignalContext(call) = context
    /\ inFlight[context] > 0

\* C18: after a signal call made while a send for that event
\* awaits its acknowledgement, the flag stays pending until a send issued
\* after the signal has been acknowledged: the step that follows the signal
\* issues no send acknowledged in that same step, so it leaves the flag
\* pending.
C18_SignalSurvivesEarlierAck ==
    [][\A context \in FlagContexts :
          SignalledWhileInFlight(lastCall, context) => Deref(context)']_vars

NoFlagPending ==
    ~noUpdateAvailableEventPending /\ ~updateInstallingEventPending /\ ~appRestartEventPending

\* ticks keep firing with successful timer consumption
TicksKeepFiring == []<><<IsTick(lastCall') /\ lastCall'.in.consume = 0>>_vars

\* every send the transport accepted is eventually acknowledged
SendsAcknowledged ==
    \A context \in Contexts :
        \/ []<>(inFlight[context] = 0)
        \/ []<><<IsAck(lastCall') /\ lastCall'.in.context = context>>_vars

\* acknowledgements eventually succeed
AcksEventuallySucceed == <>[][IsAck(lastCall') => lastCall'.in.success]_vars

\* the two signal operations are called only finitely often
SignalsCease == <>[][~IsSignal(lastCall')]_vars

\* the synchronous send eventually stops failing
SendsEventuallyAccepted ==
    <>[][IsTick(lastCall') =>
            \A i \in 1..Len(lastCall'.out.sends) :
                lastCall'.out.sends[i].result = "Cloud_Result_OK"]_vars

\* C19 as claimed: if ticks keep firing with successful timer consumption,
\* every issued send is eventually acknowledged, acknowledgements eventually
\* succeed and the signal operations are called finitely often, then
\* eventually no flag is pending, AppRestart included, and none becomes
\* pending again.
C19_EventualDelivery ==
    (TicksKeepFiring /\ SendsAcknowledged /\ AcksEventuallySucceed /\ SignalsCease)
        => <>[]NoFlagPending

\* C19 amended: under the same conditions and if, in addition, the
\* synchronous send eventually stops failing, eventually no flag is pending
\* and none becomes pending again.
C19_EventualDeliveryOnceSendsAccepted ==
    (TicksKeepFiring /\ SendsAcknowledged /\ AcksEventuallySucceed /\ SignalsCease
        /\ SendsEventuallyAccepted)
        => <>[]NoFlagPending

C19_Witness ==
    /\ IsAck(lastCall)
    /\ lastCall.in.success
    /\ lastCall.in.context = "&appRestartEventPending"
    /\ phase = "running"
    /\ NoFlagPending
    /\ InFlightTotal(inFlight) = 0

IsReport(call) == call.op = "Cloud_SendThermometerTelemetryUploadEnabledChangedEvent"

\* C20: a report carries as "av" the value latestVersion had before the
\* call and leaves latestVersion one higher, wrapping at the width of
\* unsigned int, whatever the transport returns; a report directly after a
\* reconciliation that raised the counter to v carries v; no flag and no
\* send awaiting acknowledgement changes.
C20_ReportStampsThenIncrements ==
    [][IsReport(lastCall') =>
          /\ lastCall'.out.av = latestVersion
          /\ latestVersion' = (latestVersion + 1) % UIntModulus
          /\ (IsTwin(lastCall) /\ lastCall.out.higher) =>
                 lastCall'.out.av = lastCall.out.requestedVersion[1]
          /\ flags' = flags
          /\ inFlight' = inFlight]_vars

C20_Witness ==
    /\ IsReport(lastCall)
    /\ lastCall.out.av = UIntModulus - 1
    /\ latestVersion = 0
    /\ lastCall.out.result = "Cloud_Result_NoNetwork"
    /\ noUpdateAvailableEventPending

=============================================================================
